---------------------------- MODULE Spec2Model ----------------------------
(***************************************************************************)
(* mbox2db (src/src/main.rs): an mbox file is split into message blocks,   *)
(* each block is handed to the MIME parser, its headers and bodies are     *)
(* collected into an EmailRecord, the record is filtered on its Gmail      *)
(* labels, its date is normalised, and the row is inserted inside one      *)
(* SQLite transaction that is committed at the end.                        *)
(*                                                                         *)
(* Text is modelled as a sequence of one-character strings (ASCII), so     *)
(* that prefix tests, substring search, replacement and case folding are   *)
(* computed and not assumed.                                               *)
(***************************************************************************)
EXTENDS Integers, Sequences, FiniteSets, TLC

VARIABLES
    \* process_mbox
    pc, input, msgs, pos, current_email, email_count, skipped_count,
    include_spam, include_trash, include_both,
    tx_rows, db_rows, accepted, warnings, emitted, err_cause,
    \* should_skip_email called on its own
    labels, skip_out,
    \* parse_email_date called on its own
    date_in, date_out, date_again,
    \* extract_email_data on the result of the MIME parser
    mail_in, record_out,
    \* the preprocessing step of extract_email_data on its own
    raw_in, fixed_out

vars == <<pc, input, msgs, pos, current_email, email_count, skipped_count,
          include_spam, include_trash, include_both,
          tx_rows, db_rows, accepted, warnings, emitted, err_cause,
          labels, skip_out, date_in, date_out, date_again, mail_in, record_out,
          raw_in, fixed_out>>

pipeVars == <<input, msgs, pos, current_email, email_count, skipped_count,
              tx_rows, db_rows, accepted, warnings, emitted, err_cause>>

skipVars == <<labels, skip_out>>

dateVars == <<date_in, date_out, date_again>>

extractVars == <<mail_in, record_out>>

fixVars == <<raw_in, fixed_out>>

(***************************************************************************)
(* Bounds of the model.                                                    *)
(***************************************************************************)
\* The most labels of a label string
MaxLabels == 2

\* The most messages of an mbox file
MaxMsgs == 3

\* The most headers of a header list
MaxHeaders == 2

\* The most leaves of a body-part tree
MaxLeaves == 3

\* The most lines of a block given to the preprocessing step
MaxLines == 2

(***************************************************************************)
(* Text: str methods of the Rust standard library used by main.rs.         *)
(***************************************************************************)
EmptyStr == <<>>

UpperChars == <<"A","B","C","D","E","F","G","H","I","J","K","L","M","N","O","P","Q","R","S","T","U","V","W","X","Y","Z">>

LowerChars == <<"a","b","c","d","e","f","g","h","i","j","k","l","m","n","o","p","q","r","s","t","u","v","w","x","y","z">>

Digits == <<"0","1","2","3","4","5","6","7","8","9">>

IsDigit(c) == \E i \in 1..10 : Digits[i] = c

DigitVal(c) == (CHOOSE i \in 1..10 : Digits[i] = c) - 1

IsAlpha(c) == \E i \in 1..26 : UpperChars[i] = c \/ LowerChars[i] = c

\* char::is_whitespace on ASCII text: the space, the tab, the newline, the vertical
\* tab, the form feed and the carriage return
IsWhitespace(c) == c \in {" ", "\t", "\n", "", "\f", "\r"}

\* \w of the regex crate, on ASCII
IsWordChar(c) == IsDigit(c) \/ IsAlpha(c) \/ c = "_"

LowerChar(c) ==
    IF \E i \in 1..26 : UpperChars[i] = c
    THEN LowerChars[CHOOSE i \in 1..26 : UpperChars[i] = c]
    ELSE c

UpperChar(c) ==
    IF \E i \in 1..26 : LowerChars[i] = c
    THEN UpperChars[CHOOSE i \in 1..26 : LowerChars[i] = c]
    ELSE c

\* str::to_lowercase
ToLower(s) == [i \in 1..Len(s) |-> LowerChar(s[i])]

\* s[from..] with a 1-based first index
Drop(s, from) == SubSeq(s, from, Len(s))

\* str::starts_with
StartsWith(s, p) == Len(s) >= Len(p) /\ SubSeq(s, 1, Len(p)) = p

MatchAt(s, p, i) == i >= 1 /\ i + Len(p) - 1 <= Len(s) /\ SubSeq(s, i, i + Len(p) - 1) = p

\* str::contains
Contains(s, p) == \E i \in 1..(Len(s) - Len(p) + 1) : MatchAt(s, p, i)

\* str::find: the 1-based index of the first match, 0 when there is none
Find(s, p) ==
    IF Contains(s, p)
    THEN CHOOSE i \in 1..(Len(s) - Len(p) + 1) :
            MatchAt(s, p, i) /\ \A j \in 1..(i - 1) : ~MatchAt(s, p, j)
    ELSE 0

\* str::replace: every non-overlapping match, left to right
RECURSIVE Replace(_, _, _)
Replace(s, p, r) ==
    LET i == Find(s, p) IN
    IF i = 0 THEN s
    ELSE SubSeq(s, 1, i - 1) \o r \o Replace(Drop(s, i + Len(p)), p, r)

\* str::replacen(.., 1)
ReplaceFirst(s, p, r) ==
    LET i == Find(s, p) IN
    IF i = 0 THEN s ELSE SubSeq(s, 1, i - 1) \o r \o Drop(s, i + Len(p))

\* str::trim_start
TrimStart(s) ==
    IF \A i \in 1..Len(s) : IsWhitespace(s[i]) THEN EmptyStr
    ELSE Drop(s, CHOOSE i \in 1..Len(s) :
                    ~IsWhitespace(s[i]) /\ \A j \in 1..(i - 1) : IsWhitespace(s[j]))

\* str::trim_end
TrimEnd(s) ==
    IF \A i \in 1..Len(s) : IsWhitespace(s[i]) THEN EmptyStr
    ELSE SubSeq(s, 1, CHOOSE i \in 1..Len(s) :
                    ~IsWhitespace(s[i]) /\ \A j \in (i + 1)..Len(s) : IsWhitespace(s[j]))

\* str::trim
Trim(s) == TrimEnd(TrimStart(s))

\* [T]::join on strings
RECURSIVE Join(_, _)
Join(parts, sep) ==
    IF Len(parts) = 0 THEN EmptyStr
    ELSE IF Len(parts) = 1 THEN parts[1]
    ELSE parts[1] \o sep \o Join(Tail(parts), sep)

\* All sequences over S of length lo..hi
SeqsOf(S, lo, hi) == UNION {[1..n -> S] : n \in lo..hi}

(***************************************************************************)
(* should_skip_email (the retention filter).                               *)
(***************************************************************************)
\* A filter that compares the labels without lowering their case.
should_skip_email_cased(lbls, inc_spam, inc_trash, inc_both) ==
    IF inc_both THEN FALSE
    ELSE LET is_spam == Contains(lbls, <<"s","p","a","m">>)
             is_trash == Contains(lbls, <<"t","r","a","s","h">>)
         IN  IF is_spam /\ ~inc_spam /\ ~inc_both THEN TRUE
             ELSE IF is_trash /\ ~inc_trash /\ ~inc_both THEN TRUE
             ELSE FALSE

should_skip_email(lbls, inc_spam, inc_trash, inc_both) ==
    IF inc_both THEN FALSE
    ELSE LET labels_lower == ToLower(lbls)
             is_spam == Contains(labels_lower, <<"s","p","a","m">>)
             is_trash == Contains(labels_lower, <<"t","r","a","s","h">>)
         IN  IF is_spam /\ ~inc_spam /\ ~inc_both THEN TRUE
             ELSE IF is_trash /\ ~inc_trash /\ ~inc_both THEN TRUE
             ELSE FALSE

(***************************************************************************)
(* EmailRecord and its Default.                                            *)
(***************************************************************************)
EmailRecordDefault ==
    [from |-> EmptyStr, to |-> EmptyStr, cc |-> EmptyStr, bcc |-> EmptyStr,
     subject |-> EmptyStr, date |-> EmptyStr, message_id |-> EmptyStr,
     in_reply_to |-> EmptyStr, references |-> EmptyStr, content_type |-> EmptyStr,
     body_plain |-> EmptyStr, body_html |-> EmptyStr, gmail_labels |-> EmptyStr]

(***************************************************************************)
(* mailparse::parse_mail, the MIME parser main.rs calls.  A ParsedMail is  *)
(* [headers, body, subparts]: headers a sequence of [key, value] in the    *)
(* order of the message, body the result of get_body() ([ok, text]),       *)
(* subparts a sequence of ParsedMail.  Text handed to the parser here is a *)
(* single-part 7bit message: header lines to the first blank line, then    *)
(* the body.                                                               *)
(***************************************************************************)
\* str::split('\n'): the pieces between newlines, a trailing empty piece kept
RECURSIVE SplitNewline(_)
SplitNewline(text) ==
    LET i == Find(text, <<"\n">>) IN
    IF i = 0 THEN <<text>>
    ELSE <<SubSeq(text, 1, i - 1)>> \o SplitNewline(Drop(text, i + 1))

\* str::lines: as split('\n') without the empty piece after a final newline; a
\* piece that ended at a newline loses the carriage return before that newline
\* ("\r\n"), the piece after the last newline is left as it is
Lines(text) ==
    LET ps == SplitNewline(text) IN
    [k \in 1..(IF ps[Len(ps)] = EmptyStr THEN Len(ps) - 1 ELSE Len(ps)) |->
        IF k < Len(ps) /\ ps[k] # EmptyStr /\ ps[k][Len(ps[k])] = "\r"
        THEN SubSeq(ps[k], 1, Len(ps[k]) - 1)
        ELSE ps[k]]

\* The number of folded continuation lines (starting with space or tab) after line i
RECURSIVE Continuations(_, _)
Continuations(ls, i) ==
    IF i + 1 <= Len(ls) /\ ls[i + 1] # EmptyStr /\ ls[i + 1][1] \in {" ", "\t"}
    THEN 1 + Continuations(ls, i + 1)
    ELSE 0

\* A line of a header's value: the value ends after its last character that is
\* no carriage return, and a line before a newline loses the one carriage return
\* before that newline
ValueLine(piece, last) ==
    IF last
    THEN SubSeq(piece, 1, CHOOSE n \in 0..Len(piece) :
                              /\ n > 0 => piece[n] # "\r"
                              /\ \A j \in (n + 1)..Len(piece) : piece[j] = "\r")
    ELSE IF piece # EmptyStr /\ piece[Len(piece)] = "\r" THEN SubSeq(piece, 1, Len(piece) - 1)
    ELSE piece

\* MailHeader::get_value: the folded lines joined by one space, each without its
\* leading whitespace
HeaderValue(value_lines) ==
    Join([k \in 1..Len(value_lines) |->
            TrimStart(ValueLine(value_lines[k], k = Len(value_lines)))], <<" ">>)

\* mailparse::parse_headers over the lines of the text, header by header from
\* line i.  The headers end at an empty line, "\n" or "\r\n"; a carriage return
\* where a header would begin, with no newline after it, is an error.
RECURSIVE ParseHeaders(_, _, _)
ParseHeaders(ls, i, acc) ==
    IF i > Len(ls) THEN [ok |-> TRUE, headers |-> acc, body_from |-> i]
    ELSE IF ls[i] = EmptyStr \/ (ls[i] = <<"\r">> /\ i < Len(ls))
         THEN [ok |-> TRUE, headers |-> acc, body_from |-> i + 1]
    ELSE IF ls[i][1] \in {" ", "\r"} THEN [ok |-> FALSE, headers |-> acc, body_from |-> i]
    ELSE IF ~Contains(ls[i], <<":">>) THEN
        IF i = Len(ls) THEN [ok |-> FALSE, headers |-> acc, body_from |-> i]
        ELSE ParseHeaders(ls, i + 1,
                          Append(acc, [key |-> EmptyStr, value |-> TrimStart(ls[i])]))
    ELSE LET k == Find(ls[i], <<":">>)
             n == Continuations(ls, i)
         IN  ParseHeaders(ls, i + 1 + n,
                 Append(acc, [key |-> SubSeq(ls[i], 1, k - 1),
                              value |-> HeaderValue(<<Drop(ls[i], k + 1)>>
                                                    \o SubSeq(ls, i + 1, i + n))]))

parse_mail(text) ==
    LET ls == SplitNewline(text)
        hs == ParseHeaders(ls, 1, <<>>)
    IN  IF ~hs.ok THEN [ok |-> FALSE, mail |-> [headers |-> <<>>,
                                               body |-> [ok |-> FALSE, text |-> EmptyStr],
                                               subparts |-> <<>>]]
        ELSE [ok |-> TRUE,
              mail |-> [headers |-> hs.headers,
                        body |-> [ok |-> TRUE,
                                  text |-> Join(SubSeq(ls, hs.body_from, Len(ls)), <<"\n">>)],
                        subparts |-> <<>>]]

(***************************************************************************)
(* extract_body and extract_email_data.                                    *)
(***************************************************************************)
\* The value of the first header whose lowered key is name, lowered; "" when absent
FirstHeaderLower(headers, name) ==
    IF \E i \in 1..Len(headers) : ToLower(headers[i].key) = name
    THEN ToLower(headers[CHOOSE i \in 1..Len(headers) :
                            /\ ToLower(headers[i].key) = name
                            /\ \A j \in 1..(i - 1) : ToLower(headers[j].key) # name].value)
    ELSE EmptyStr

RECURSIVE extract_body(_, _)
RECURSIVE extract_subparts(_, _)
RECURSIVE extract_subparts_reversed(_, _)
extract_body(parsed, record) ==
    IF parsed.subparts = <<>> THEN
        LET content_type == FirstHeaderLower(parsed.headers, <<"c","o","n","t","e","n","t","-","t","y","p","e">>) IN
        IF parsed.body.ok THEN
            IF Contains(content_type, <<"t","e","x","t","/","h","t","m","l">>)
            THEN [record EXCEPT !.body_html = parsed.body.text]
            ELSE [record EXCEPT !.body_plain = parsed.body.text]
        ELSE record
    ELSE extract_subparts(parsed.subparts, record)

\* A walk over the parts in which the first part is handled last
extract_subparts_reversed(parts, record) ==
    IF parts = <<>> THEN record
    ELSE extract_body(Head(parts), extract_subparts_reversed(Tail(parts), record))

\* for part in &parsed.subparts { extract_body(part, record) }
extract_subparts(parts, record) ==
    IF parts = <<>> THEN record
    ELSE extract_subparts(Tail(parts), extract_body(Head(parts), record))

\* One arm of the match on the lowered header name
SetHeaderField(record, header) ==
    LET name == ToLower(header.key)
        value == header.value
    IN  CASE name = <<"f","r","o","m">> -> [record EXCEPT !.from = value]
          [] name = <<"t","o">> -> [record EXCEPT !.to = value]
          [] name = <<"c","c">> -> [record EXCEPT !.cc = value]
          [] name = <<"b","c","c">> -> [record EXCEPT !.bcc = value]
          [] name = <<"s","u","b","j","e","c","t">> -> [record EXCEPT !.subject = value]
          [] name = <<"d","a","t","e">> -> [record EXCEPT !.date = value]
          [] name = <<"m","e","s","s","a","g","e","-","i","d">> -> [record EXCEPT !.message_id = value]
          [] name = <<"i","n","-","r","e","p","l","y","-","t","o">> -> [record EXCEPT !.in_reply_to = value]
          [] name = <<"r","e","f","e","r","e","n","c","e","s">> -> [record EXCEPT !.references = value]
          [] name = <<"c","o","n","t","e","n","t","-","t","y","p","e">> -> [record EXCEPT !.content_type = value]
          [] name = <<"x","-","g","m","a","i","l","-","l","a","b","e","l","s">> -> [record EXCEPT !.gmail_labels = value]
          [] OTHER -> record

\* for header in &parsed.headers { match ... }
RECURSIVE CollectHeaders(_, _)
CollectHeaders(headers, record) ==
    IF headers = <<>> THEN record
    ELSE CollectHeaders(Tail(headers), SetHeaderField(record, Head(headers)))

\* The record built from a ParsedMail: the header loop, then extract_body
RecordOfParsed(parsed) ==
    extract_body(parsed, CollectHeaders(parsed.headers, EmailRecordDefault))

\* The closure mapped over raw_str.lines()
FixLine(line) ==
    IF StartsWith(line, <<" ">>) /\ TrimStart(line) # EmptyStr
    THEN TrimStart(line)
    ELSE line

\* raw_str.lines().map(..).collect::<Vec<_>>().join("\n")
fixed_email(raw_email) ==
    Join([k \in 1..Len(Lines(raw_email)) |-> FixLine(Lines(raw_email)[k])], <<"\n">>)

extract_email_data(raw_email) ==
    LET parsed == parse_mail(fixed_email(raw_email))
    IN  IF parsed.ok THEN [ok |-> TRUE, record |-> RecordOfParsed(parsed.mail)]
        ELSE [ok |-> FALSE, record |-> EmailRecordDefault]

(***************************************************************************)
(* parse_email_date.                                                       *)
(***************************************************************************)
None == [some |-> FALSE, text |-> EmptyStr]

Some(text) == [some |-> TRUE, text |-> text]

\* The character at 1-based index i, "" past either end
At(s, i) == IF i >= 1 /\ i <= Len(s) THEN s[i] ELSE ""

\* static GMT_PATTERN: GMT([+-])(\d{2}):?(\d{2}); the length of the match at i, 0 for none
GmtMatchLen(s, i) ==
    IF /\ MatchAt(s, <<"G","M","T">>, i)
       /\ At(s, i + 3) \in {"+", "-"}
       /\ IsDigit(At(s, i + 4)) /\ IsDigit(At(s, i + 5))
    THEN IF At(s, i + 6) = ":" /\ IsDigit(At(s, i + 7)) /\ IsDigit(At(s, i + 8)) THEN 9
         ELSE IF IsDigit(At(s, i + 6)) /\ IsDigit(At(s, i + 7)) THEN 8
         ELSE 0
    ELSE 0

\* GMT_PATTERN.replace_all(&cleaned, "$1$2$3")
RECURSIVE GMT_PATTERN_replace_all(_, _)
GMT_PATTERN_replace_all(s, i) ==
    IF i > Len(s) THEN EmptyStr
    ELSE LET n == GmtMatchLen(s, i) IN
         IF n = 0 THEN <<s[i]>> \o GMT_PATTERN_replace_all(s, i + 1)
         ELSE SubSeq(s, i + 3, i + 5) \o SubSeq(s, i + n - 2, i + n - 1)
              \o GMT_PATTERN_replace_all(s, i + n)

\* static TZ_3DIGIT: ([+-])(\d{3})\s*$
Tz3MatchAt(s, i) ==
    /\ At(s, i) \in {"+", "-"}
    /\ IsDigit(At(s, i + 1)) /\ IsDigit(At(s, i + 2)) /\ IsDigit(At(s, i + 3))
    /\ \A j \in (i + 4)..Len(s) : IsWhitespace(s[j])

\* TZ_3DIGIT.replace_all(&cleaned, "${1}0$2")
TZ_3DIGIT_replace_all(s) ==
    IF \E i \in 1..Len(s) : Tz3MatchAt(s, i)
    THEN LET i == CHOOSE k \in 1..Len(s) :
                     Tz3MatchAt(s, k) /\ \A j \in 1..(k - 1) : ~Tz3MatchAt(s, j)
         IN  SubSeq(s, 1, i - 1) \o <<s[i], "0">> \o SubSeq(s, i + 1, i + 3)
    ELSE s

\* static SINGLE_DIGIT_TIME: \b(\d):(\d{2}):(\d{2})\b
SingleDigitTimeAt(s, i) ==
    /\ ~IsWordChar(At(s, i - 1))
    /\ IsDigit(At(s, i))
    /\ At(s, i + 1) = ":"
    /\ IsDigit(At(s, i + 2)) /\ IsDigit(At(s, i + 3))
    /\ At(s, i + 4) = ":"
    /\ IsDigit(At(s, i + 5)) /\ IsDigit(At(s, i + 6))
    /\ ~IsWordChar(At(s, i + 7))

\* SINGLE_DIGIT_TIME.replace_all(&cleaned, "0$1:$2:$3")
RECURSIVE SINGLE_DIGIT_TIME_replace_all(_, _)
SINGLE_DIGIT_TIME_replace_all(s, i) ==
    IF i > Len(s) THEN EmptyStr
    ELSE IF SingleDigitTimeAt(s, i)
         THEN <<"0">> \o SubSeq(s, i, i + 6) \o SINGLE_DIGIT_TIME_replace_all(s, i + 7)
         ELSE <<s[i]>> \o SINGLE_DIGIT_TIME_replace_all(s, i + 1)

\* static SINGLE_DIGIT_MIN_SEC: :(\d)\b
SingleDigitMinSecAt(s, i) ==
    /\ At(s, i) = ":"
    /\ IsDigit(At(s, i + 1))
    /\ ~IsWordChar(At(s, i + 2))

\* SINGLE_DIGIT_MIN_SEC.replace_all(&cleaned, ":0$1")
RECURSIVE SINGLE_DIGIT_MIN_SEC_replace_all(_, _)
SINGLE_DIGIT_MIN_SEC_replace_all(s, i) ==
    IF i > Len(s) THEN EmptyStr
    ELSE IF SingleDigitMinSecAt(s, i)
         THEN <<":", "0", s[i + 1]>> \o SINGLE_DIGIT_MIN_SEC_replace_all(s, i + 2)
         ELSE <<s[i]>> \o SINGLE_DIGIT_MIN_SEC_replace_all(s, i + 1)

\* cleaned.replace("--", "-")
CollapseDoubleDash(s) == Replace(s, <<"-","-">>, <<"-">>)

\* "Strip garbage after timezone": rfind of '+' or '-', then the cut 5 bytes on
StripAfterTimezone(s) ==
    IF \E i \in 1..Len(s) : s[i] \in {"+", "-"}
    THEN LET i == CHOOSE k \in 1..Len(s) :
                     s[k] \in {"+", "-"} /\ \A j \in (k + 1)..Len(s) : s[j] \notin {"+", "-"}
         IN  IF i > 1 /\ i + 4 < Len(s) /\ \E j \in (i + 5)..Len(s) : ~IsWhitespace(s[j])
             THEN SubSeq(s, 1, i + 4)
             ELSE s
    ELSE s

\* "Strip timezone name in parentheses"
StripParenthesis(s) ==
    IF Contains(s, <<"(">>) THEN Trim(SubSeq(s, 1, Find(s, <<"(">>) - 1)) ELSE s

\* A chain of str::replace calls: the pairs <<from, to>> from the i-th on, applied
\* in order
RECURSIVE ReplaceChain(_, _, _)
ReplaceChain(s, pairs, i) ==
    IF i > Len(pairs) \/ Len(s) = 0 THEN s
    ELSE ReplaceChain(Replace(s, pairs[i][1], pairs[i][2]), pairs, i + 1)

ZoneNames ==
    << <<<<"E","a","s","t","e","r","n"," ","D","a","y","l","i","g","h","t"," ","T","i","m","e">>, <<"-","0","4","0","0">>>>, <<<<"E","a","s","t","e","r","n"," ","S","t","a","n","d","a","r","d"," ","T","i","m","e">>, <<"-","0","5","0","0">>>>,
       <<<<"P","a","c","i","f","i","c"," ","D","a","y","l","i","g","h","t"," ","T","i","m","e">>, <<"-","0","7","0","0">>>>, <<<<"P","a","c","i","f","i","c"," ","S","t","a","n","d","a","r","d"," ","T","i","m","e">>, <<"-","0","8","0","0">>>>,
       <<<<"C","e","n","t","r","a","l"," ","D","a","y","l","i","g","h","t"," ","T","i","m","e">>, <<"-","0","5","0","0">>>>, <<<<"C","e","n","t","r","a","l"," ","S","t","a","n","d","a","r","d"," ","T","i","m","e">>, <<"-","0","6","0","0">>>>,
       <<<<"M","o","u","n","t","a","i","n"," ","D","a","y","l","i","g","h","t"," ","T","i","m","e">>, <<"-","0","6","0","0">>>>, <<<<"M","o","u","n","t","a","i","n"," ","S","t","a","n","d","a","r","d"," ","T","i","m","e">>, <<"-","0","7","0","0">>>>,
       <<<<" ","U","T","C">>, <<" ","+","0","0","0","0">>>>, <<<<" ","G","M","T">>, <<" ","+","0","0","0","0">>>>,
       <<<<" ","E","D","T">>, <<" ","-","0","4","0","0">>>>, <<<<" ","E","S","T">>, <<" ","-","0","5","0","0">>>>,
       <<<<" ","C","D","T">>, <<" ","-","0","5","0","0">>>>, <<<<" ","C","S","T">>, <<" ","-","0","6","0","0">>>>,
       <<<<" ","P","D","T">>, <<" ","-","0","7","0","0">>>>, <<<<" ","P","S","T">>, <<" ","-","0","8","0","0">>>>,
       <<<<" ","C","E","T">>, <<" ","+","0","1","0","0">>>> >>

AmPmMarkers ==
    << <<<<"P","M","+">>, <<" ","+">>>>, <<<<"P","M","-">>, <<" ","-">>>>, <<<<"A","M","+">>, <<" ","+">>>>, <<<<"A","M","-">>, <<" ","-">>>>,
       <<<<" ","P","M"," ">>, <<" ">>>>, <<<<" ","A","M"," ">>, <<" ">>>> >>

DayNames ==
    << <<<<"M","o","n","d","a","y">>, <<"M","o","n">>>>, <<<<"T","u","e","s","d","a","y">>, <<"T","u","e">>>>, <<<<"W","e","d","n","e","s","d","a","y">>, <<"W","e","d">>>>,
       <<<<"T","h","u","r","s","d","a","y">>, <<"T","h","u">>>>, <<<<"T","h","u","r","s",",">>, <<"T","h","u",",">>>>, <<<<"F","r","i","d","a","y">>, <<"F","r","i">>>>,
       <<<<"S","a","t","u","r","d","a","y">>, <<"S","a","t">>>>, <<<<"S","u","n","d","a","y">>, <<"S","u","n">>>> >>

MonthNames ==
    << <<<<"J","a","n","u","a","r","y">>, <<"J","a","n">>>>, <<<<"F","e","b","r","u","a","r","y">>, <<"F","e","b">>>>, <<<<"M","a","r","c","h">>, <<"M","a","r">>>>,
       <<<<"A","p","r","i","l">>, <<"A","p","r">>>>, <<<<"J","u","n","e">>, <<"J","u","n">>>>, <<<<"J","u","l","y">>, <<"J","u","l">>>>,
       <<<<"A","u","g","u","s","t">>, <<"A","u","g">>>>, <<<<"S","e","p","t","e","m","b","e","r">>, <<"S","e","p">>>>, <<<<"O","c","t","o","b","e","r">>, <<"O","c","t">>>>,
       <<<<"N","o","v","e","m","b","e","r">>, <<"N","o","v">>>>, <<<<"D","e","c","e","m","b","e","r">>, <<"D","e","c">>>> >>

\* The repairs up to the zone names: "--", garbage after the timezone, the
\* parenthesis, GMT offsets, zone names
RepairZone(s) ==
    ReplaceChain(
        GMT_PATTERN_replace_all(
            StripParenthesis(StripAfterTimezone(CollapseDoubleDash(s))), 1),
        ZoneNames, 1)

\* The repairs of the offset and of the time: the three regular expressions
RepairClock(s) ==
    SINGLE_DIGIT_MIN_SEC_replace_all(
        SINGLE_DIGIT_TIME_replace_all(TZ_3DIGIT_replace_all(s), 1), 1)

\* The repairs of the names: AM/PM markers, day names, month names
RepairNames(s) ==
    ReplaceChain(ReplaceChain(ReplaceChain(s, AmPmMarkers, 1), DayNames, 1), MonthNames, 1)

\* The textual repairs of parse_email_date, in the order of the code, on the
\* trimmed, non-empty string
RepairDate(trimmed) == RepairNames(RepairClock(RepairZone(trimmed)))

(***************************************************************************)
(* chrono: DateTime::parse_from_rfc2822, NaiveDateTime::parse_from_str and *)
(* format("%Y-%m-%d %H:%M:%S"), which parse_email_date calls.  A parse     *)
(* yields [ok, i, wd, y, mo, d, h, mi, s]: i is the index of the next      *)
(* character to read, wd is 0 when no weekday was given, 1 (Monday) to 7   *)
(* (Sunday) otherwise, off is the offset from UTC in minutes (0 where the   *)
(* format has none).  The offset of an RFC 2822 date places the instant,   *)
(* which must be one a DateTime can hold, and is left out of the formatted *)
(* wall-clock time.                                                        *)
(***************************************************************************)
NoDate ==
    [ok |-> FALSE, i |-> 1, wd |-> 0, y |-> 0, mo |-> 0, d |-> 0, h |-> 0, mi |-> 0, s |-> 0,
     off |-> 0]

\* A parse that begins at index i of the string
StartAt(i) == [NoDate EXCEPT !.ok = TRUE, !.i = i]

WeekdayAbbrs == << <<"m","o","n">>, <<"t","u","e">>, <<"w","e","d">>, <<"t","h","u">>, <<"f","r","i">>, <<"s","a","t">>, <<"s","u","n">> >>

MonthAbbrs ==
    << <<"j","a","n">>, <<"f","e","b">>, <<"m","a","r">>, <<"a","p","r">>, <<"m","a","y">>, <<"j","u","n">>,
       <<"j","u","l">>, <<"a","u","g">>, <<"s","e","p">>, <<"o","c","t">>, <<"n","o","v">>, <<"d","e","c">> >>

\* scan::short_weekday / scan::short_month0: the index in names of the three
\* characters at i, whatever their case; 0 when they are no such name
NameAt(s, i, names) ==
    IF i + 2 <= Len(s) /\ \E k \in 1..Len(names) : ToLower(SubSeq(s, i, i + 2)) = names[k]
    THEN CHOOSE k \in 1..Len(names) : ToLower(SubSeq(s, i, i + 2)) = names[k]
    ELSE 0

\* The first index from i on that holds no whitespace (Len(s) + 1 when none)
SkipWs(s, i) ==
    IF \E j \in i..Len(s) : ~IsWhitespace(s[j])
    THEN CHOOSE j \in i..Len(s) : ~IsWhitespace(s[j]) /\ \A k \in i..(j - 1) : IsWhitespace(s[k])
    ELSE Len(s) + 1

\* scan::number: how many digits, at most max, stand at i
RECURSIVE DigitsAt(_, _, _)
DigitsAt(s, i, max) ==
    IF max > 0 /\ IsDigit(At(s, i)) THEN 1 + DigitsAt(s, i + 1, max - 1) ELSE 0

\* The value of the n digits at i.  A value of more than six digits is above
\* every year chrono can hold (and, past i64, an error of scan::number itself):
\* it is kept as 1000000, a value the checks of the date refuse the same way.
RECURSIVE NumberAt(_, _, _)
NumberAt(s, i, n) ==
    IF n = 0 THEN 0
    ELSE IF NumberAt(s, i, n - 1) >= 100000 THEN 1000000
    ELSE NumberAt(s, i, n - 1) * 10 + DigitVal(s[i + n - 1])

\* How many ASCII letters stand at i
RECURSIVE LettersAt(_, _)
LettersAt(s, i) == IF IsAlpha(At(s, i)) THEN 1 + LettersAt(s, i + 1) ELSE 0

\* The zone names scan::timezone_offset_2822 knows, each with its offset in hours
Rfc2822ZoneNames ==
    << <<<<"g","m","t">>, 0>>, <<<<"u","t">>, 0>>, <<<<"e","d","t">>, -4>>, <<<<"e","s","t">>, -5>>, <<<<"c","d","t">>, -5>>,
       <<<<"c","s","t">>, -6>>, <<<<"m","d","t">>, -6>>, <<<<"m","s","t">>, -7>>, <<<<"p","d","t">>, -7>>, <<<<"p","s","t">>, -8>> >>

\* scan::timezone_offset_2822 followed by FixedOffset::east_opt: the length of
\* the zone at i, 0 when there is no zone the date can be built with
ZoneLenAt(s, i) ==
    LET n == LettersAt(s, i) IN
    IF n > 0 THEN
        IF \E k \in 1..Len(Rfc2822ZoneNames) :
              ToLower(SubSeq(s, i, i + n - 1)) = Rfc2822ZoneNames[k][1] THEN n
        ELSE IF n = 1 /\ ToLower(<<s[i]>>) # <<"j">> THEN 1
        ELSE 0
    ELSE IF /\ At(s, i) \in {"+", "-"}
            /\ DigitsAt(s, i + 1, 4) = 4
            /\ NumberAt(s, i + 1, 2) < 24
            /\ NumberAt(s, i + 3, 2) < 60
         THEN 5
    ELSE 0

\* The offset, in minutes, of the zone at i: the hours of a zone name, 0 for a
\* single letter, the signed hhmm of a numeric zone
ZoneMinutesAt(s, i) ==
    IF At(s, i) = "+" THEN NumberAt(s, i + 1, 2) * 60 + NumberAt(s, i + 3, 2)
    ELSE IF At(s, i) = "-" THEN 0 - (NumberAt(s, i + 1, 2) * 60 + NumberAt(s, i + 3, 2))
    ELSE IF \E k \in 1..Len(Rfc2822ZoneNames) :
               ToLower(SubSeq(s, i, i + LettersAt(s, i) - 1)) = Rfc2822ZoneNames[k][1]
    THEN 60 * Rfc2822ZoneNames[CHOOSE k \in 1..Len(Rfc2822ZoneNames) :
               ToLower(SubSeq(s, i, i + LettersAt(s, i) - 1)) = Rfc2822ZoneNames[k][1]][2]
    ELSE 0

\* scan::comment_2822 after its trim_start: the index after the comment that
\* starts at i, 0 when there is none.  depth is the nesting of "(" read so far
\* (0 before the first), escaped says the last character was a backslash.
RECURSIVE CommentEnd(_, _, _, _)
CommentEnd(s, i, depth, escaped) ==
    IF i > Len(s) THEN 0
    ELSE IF depth = 0 THEN (IF s[i] = "(" THEN CommentEnd(s, i + 1, 1, FALSE) ELSE 0)
    ELSE IF escaped THEN CommentEnd(s, i + 1, depth, FALSE)
    ELSE IF s[i] = ")" THEN (IF depth = 1 THEN i + 1
                             ELSE CommentEnd(s, i + 1, depth - 1, FALSE))
    ELSE IF s[i] = "\\" THEN CommentEnd(s, i + 1, depth, TRUE)
    ELSE IF s[i] = "(" THEN CommentEnd(s, i + 1, depth + 1, FALSE)
    ELSE CommentEnd(s, i + 1, depth, FALSE)

\* while let Ok(..) = scan::comment_2822(s): the index after the comments that
\* start at i
RECURSIVE SkipComments(_, _)
SkipComments(s, i) ==
    IF CommentEnd(s, SkipWs(s, i), 0, FALSE) = 0 THEN i
    ELSE SkipComments(s, CommentEnd(s, SkipWs(s, i), 0, FALSE))

IsLeapYear(y) == (y % 4 = 0 /\ y % 100 # 0) \/ y % 400 = 0

DaysInMonth(y, mo) ==
    IF mo = 2 THEN (IF IsLeapYear(y) THEN 29 ELSE 28)
    ELSE IF mo \in {4, 6, 9, 11} THEN 30
    ELSE 31

\* The day of the week of a date of the Gregorian calendar, 1 (Monday) to 7 (Sunday)
WeekdayOf(y, mo, d) ==
    LET a == (14 - mo) \div 12
        yy == y - a
        mm == mo + 12 * a - 2
        w == (d + yy + yy \div 4 - yy \div 100 + yy \div 400 + (31 * mm) \div 12) % 7
    IN  IF w = 0 THEN 7 ELSE w

\* Parsed::to_naive_date, to_naive_time and to_datetime: the fields name a date
\* of the proleptic Gregorian calendar between NaiveDate::MIN and NaiveDate::MAX
\* (the years -262143 to 262142) and a time, the weekday, when given, is the
\* date's, and the instant in UTC, the local time less the offset, is no later
\* than the last second of NaiveDate::MAX and no earlier than the first of
\* NaiveDate::MIN
ValidDateTime(dt) ==
    /\ dt.y >= -262143 /\ dt.y <= 262142
    /\ (dt.y = 262142 /\ dt.mo = 12 /\ dt.d = 31) => dt.h * 60 + dt.mi - dt.off < 1440
    /\ (dt.y = -262143 /\ dt.mo = 1 /\ dt.d = 1) => dt.h * 60 + dt.mi - dt.off >= 0
    /\ dt.mo \in 1..12
    /\ dt.d >= 1 /\ dt.d <= DaysInMonth(dt.y, dt.mo)
    /\ dt.h <= 23 /\ dt.mi <= 59 /\ dt.s <= 60
    /\ dt.wd # 0 => dt.wd = WeekdayOf(dt.y, dt.mo, dt.d)

Checked(dt) == IF dt.ok /\ ValidDateTime(dt) THEN dt ELSE NoDate

\* The year of an RFC 2822 date: two digits below 50 are 20xx, two digits from
\* 50 and three digits are 19xx
Rfc2822Year(len, year) ==
    IF len = 2 /\ year <= 49 THEN year + 2000
    ELSE IF len = 2 \/ len = 3 THEN year + 1900
    ELSE year

\* The items of a format, each reading at p.i of s and moving p.i on.
\* Whitespace, possibly none
SkipSpaces(s, p) ==
    IF ~p.ok THEN p ELSE [p EXCEPT !.i = SkipWs(s, p.i)]

\* Whitespace, at least one character
ScanSpace(s, p) ==
    IF p.ok /\ IsWhitespace(At(s, p.i)) THEN [p EXCEPT !.i = SkipWs(s, p.i)] ELSE NoDate

\* The character c
ScanChar(s, p, c) ==
    IF p.ok /\ At(s, p.i) = c THEN [p EXCEPT !.i = p.i + 1] ELSE NoDate

\* scan::number(s, 1, max): a number of one to max digits, into field
ScanNumber(s, p, field, max) ==
    IF ~p.ok THEN p
    ELSE LET n == DigitsAt(s, p.i, max) IN
         IF n >= 1 THEN [p EXCEPT ![field] = NumberAt(s, p.i, n), !.i = p.i + n]
         ELSE NoDate

\* A number of exactly two digits, into field
ScanTwoDigits(s, p, field) ==
    IF p.ok /\ DigitsAt(s, p.i, 2) = 2
    THEN [p EXCEPT ![field] = NumberAt(s, p.i, 2), !.i = p.i + 2]
    ELSE NoDate

\* The name of a weekday
ScanWeekday(s, p) ==
    IF ~p.ok THEN p
    ELSE LET wd == NameAt(s, p.i, WeekdayAbbrs) IN
         IF wd # 0 THEN [p EXCEPT !.wd = wd, !.i = p.i + 3] ELSE NoDate

\* The name of a month
ScanMonthName(s, p) ==
    IF ~p.ok THEN p
    ELSE LET mo == NameAt(s, p.i, MonthAbbrs) IN
         IF mo # 0 THEN [p EXCEPT !.mo = mo, !.i = p.i + 3] ELSE NoDate

\* A numeric item of a format (%m %d %H %I %M %S): whitespace, possibly none,
\* then a number of one to max digits
ScanNumeric(s, p, field, max) == ScanNumber(s, SkipSpaces(s, p), field, max)

\* The item %Y: whitespace, possibly none, then a sign and digits, however many,
\* or one to four digits without a sign
ScanYear(s, p) ==
    IF p.ok /\ At(s, SkipWs(s, p.i)) \in {"+", "-"}
    THEN LET q == ScanNumber(s, [p EXCEPT !.i = SkipWs(s, p.i) + 1], "y", Len(s)) IN
         IF q.ok /\ At(s, SkipWs(s, p.i)) = "-" THEN [q EXCEPT !.y = 0 - q.y] ELSE q
    ELSE ScanNumeric(s, p, "y", 4)

\* RFC 2822: whitespace, possibly none; the weekday, if one is given, followed
\* by a comma; whitespace, possibly none
ScanWeekdayComma(s, p) ==
    IF NameAt(s, SkipWs(s, p.i), WeekdayAbbrs) = 0 THEN SkipSpaces(s, p)
    ELSE SkipSpaces(s, ScanChar(s, ScanWeekday(s, SkipSpaces(s, p)), ","))

\* RFC 2822: a year of two digits or more
ScanRfc2822Year(s, p) ==
    IF ~p.ok THEN p
    ELSE LET n == DigitsAt(s, p.i, Len(s)) IN
         IF n >= 2
         THEN [p EXCEPT !.y = Rfc2822Year(n, NumberAt(s, p.i, n)), !.i = p.i + n]
         ELSE NoDate

\* RFC 2822: ":" and the seconds, if given
ScanOptionalSeconds(s, p) ==
    IF p.ok /\ At(s, SkipWs(s, p.i)) = ":"
    THEN ScanTwoDigits(s, ScanChar(s, SkipSpaces(s, p), ":"), "s")
    ELSE p

\* RFC 2822: the zone
ScanZone(s, p) ==
    IF p.ok /\ ZoneLenAt(s, p.i) > 0
    THEN [p EXCEPT !.i = p.i + ZoneLenAt(s, p.i), !.off = ZoneMinutesAt(s, p.i)]
    ELSE NoDate

\* RFC 2822: nothing but comments and whitespace is left
ScanComments(s, p) ==
    IF p.ok /\ SkipComments(s, p.i) > Len(s) THEN p ELSE NoDate

\* Nothing is left
AtEnd(s, p) ==
    IF p.ok /\ p.i > Len(s) THEN p ELSE NoDate

\* RFC 2822: [weekday ","] day month year
ScanRfc2822Date(s) ==
    ScanRfc2822Year(s, ScanSpace(s, ScanMonthName(s, ScanSpace(s,
        ScanNumber(s, ScanWeekdayComma(s, StartAt(1)), "d", 2)))))

\* RFC 2822: hour ":" minute [":" second], of two digits each
ScanRfc2822Time(s, p) ==
    ScanOptionalSeconds(s, ScanTwoDigits(s, SkipSpaces(s, ScanChar(s, SkipSpaces(s,
        ScanTwoDigits(s, p, "h")), ":")), "mi"))

\* DateTime::parse_from_rfc2822
parse_from_rfc2822(s) ==
    Checked(ScanComments(s, ScanZone(s, ScanSpace(s,
        ScanRfc2822Time(s, ScanSpace(s, ScanRfc2822Date(s)))))))

\* The items "%H:%M:%S" or "%I:%M:%S": each number of one or two digits
ScanClock(s, p) ==
    ScanNumeric(s, ScanChar(s, ScanNumeric(s, ScanChar(s,
        ScanNumeric(s, p, "h", 2), ":"), "mi", 2), ":"), "s", 2)

\* "%I": the hour is one of 1 to 12
Hour12(p) == IF p.ok /\ p.h \in 1..12 THEN p ELSE NoDate

\* "%p": am or pm, whatever the case, which settles the hour of the day
ScanHalfDay(s, p) ==
    IF p.ok /\ p.i + 1 <= Len(s) /\ ToLower(SubSeq(s, p.i, p.i + 1)) \in {<<"a","m">>, <<"p","m">>}
    THEN [p EXCEPT !.h = (p.h % 12) + (IF ToLower(SubSeq(s, p.i, p.i + 1)) = <<"p","m">>
                                       THEN 12 ELSE 0),
                   !.i = p.i + 2]
    ELSE NoDate

\* NaiveDateTime::parse_from_str(.., "%a %b %d %H:%M:%S %Y")
parse_ctime(s) ==
    Checked(AtEnd(s, ScanYear(s, SkipSpaces(s, ScanClock(s, SkipSpaces(s,
        ScanNumeric(s, SkipSpaces(s, ScanMonthName(s, SkipSpaces(s,
            ScanWeekday(s, StartAt(1))))), "d", 2)))))))

\* The items "%m/%d/%Y"
ScanSlashDate(s) ==
    ScanYear(s, ScanChar(s, ScanNumeric(s, ScanChar(s,
        ScanNumeric(s, StartAt(1), "mo", 2), "/"), "d", 2), "/"))

\* NaiveDateTime::parse_from_str(.., fmt) for the three formats tried when the
\* string holds a '/': "%m/%d/%Y %I:%M:%S %p", "%m/%d/%Y %H:%M:%S", "%m/%d/%Y".
\* A date without a time is not enough for a NaiveDateTime.
parse_slash(s, fmt) ==
    IF fmt = "12h"
    THEN Checked(AtEnd(s, ScanHalfDay(s, SkipSpaces(s,
             Hour12(ScanClock(s, SkipSpaces(s, ScanSlashDate(s))))))))
    ELSE IF fmt = "24h"
    THEN Checked(AtEnd(s, ScanClock(s, SkipSpaces(s, ScanSlashDate(s)))))
    ELSE NoDate

\* n as width decimal digits, zero padded
RECURSIVE Padded(_, _)
Padded(n, width) ==
    IF width = 0 THEN EmptyStr ELSE Padded(n \div 10, width - 1) \o <<Digits[(n % 10) + 1]>>

\* The item %Y of format: four digits for the years 0 to 9999, a sign and at
\* least four digits for the others
FormatYear(y) ==
    IF y >= 0 /\ y <= 9999 THEN Padded(y, 4)
    ELSE IF y < 0 THEN <<"-">> \o Padded(0 - y, IF y < -99999 THEN 6 ELSE IF y < -9999 THEN 5 ELSE 4)
    ELSE <<"+">> \o Padded(y, IF y > 99999 THEN 6 ELSE 5)

\* format("%Y-%m-%d %H:%M:%S")
FormatCanonical(dt) ==
    FormatYear(dt.y) \o <<"-">> \o Padded(dt.mo, 2) \o <<"-">> \o Padded(dt.d, 2) \o <<" ">>
    \o Padded(dt.h, 2) \o <<":">> \o Padded(dt.mi, 2) \o <<":">> \o Padded(dt.s, 2)

\* str::split_whitespace
RECURSIVE Words(_)
Words(s) ==
    LET i == SkipWs(s, 1) IN
    IF i > Len(s) THEN <<>>
    ELSE LET j == IF \E k \in i..Len(s) : IsWhitespace(s[k])
                  THEN CHOOSE k \in i..Len(s) :
                          IsWhitespace(s[k]) /\ \A m \in i..(k - 1) : ~IsWhitespace(s[m])
                  ELSE Len(s) + 1
         IN  <<SubSeq(s, i, j - 1)>> \o Words(Drop(s, j))

\* "Missing comma after day-of-week": the retry with a comma after the first word
WithComma(cleaned) ==
    LET parts == Words(cleaned) IN
    IF /\ parts # <<>>
       /\ Len(parts[1]) = 3
       /\ ~StartsWith(cleaned, parts[1] \o <<",">>)
    THEN parse_from_rfc2822(ReplaceFirst(cleaned, parts[1], parts[1] \o <<",">>))
    ELSE NoDate

\* "Two-digit year": the retry with the fourth word widened to four digits
WithFullYear(cleaned) ==
    LET parts == Words(cleaned) IN
    IF /\ Len(parts) >= 4
       /\ Len(parts[4]) = 2
       /\ IsDigit(parts[4][1]) /\ IsDigit(parts[4][2])
    THEN LET year == NumberAt(parts[4], 1, 2)
             full_year == IF year > 50 THEN 1900 + year ELSE 2000 + year
         IN  parse_from_rfc2822(Replace(cleaned, <<" ">> \o parts[4] \o <<" ">>,
                                        <<" ">> \o Padded(full_year, 4) \o <<" ">>))
    ELSE NoDate

\* "ctime format without timezone": exactly five words
AsCtime(cleaned) ==
    LET parts == Words(cleaned) IN
    IF Len(parts) = 5 THEN parse_ctime(Join(parts, <<" ">>)) ELSE NoDate

\* "Try M/D/YYYY format": the first of the three formats that parses
AsSlashDate(cleaned) ==
    IF Contains(cleaned, <<"/">>)
    THEN IF parse_slash(cleaned, "12h").ok THEN parse_slash(cleaned, "12h")
         ELSE IF parse_slash(cleaned, "24h").ok THEN parse_slash(cleaned, "24h")
         ELSE parse_slash(cleaned, "date")
    ELSE NoDate

\* The cascade of parse attempts on the repaired string: the first that succeeds
ParseCascade(cleaned) ==
    IF parse_from_rfc2822(cleaned).ok THEN parse_from_rfc2822(cleaned)
    ELSE IF WithComma(cleaned).ok THEN WithComma(cleaned)
    ELSE IF WithFullYear(cleaned).ok THEN WithFullYear(cleaned)
    ELSE IF AsCtime(cleaned).ok THEN AsCtime(cleaned)
    ELSE AsSlashDate(cleaned)

parse_email_date(date_str) ==
    LET trimmed == Trim(date_str) IN
    IF trimmed = EmptyStr THEN None
    ELSE LET dt == ParseCascade(RepairDate(trimmed)) IN
         IF dt.ok THEN Some(FormatCanonical(dt)) ELSE None

\* The variables of the parts of the program a specification leaves alone
IdleFile ==
    /\ input = <<>> /\ msgs = <<>> /\ pos = 1
    /\ current_email = EmptyStr
    /\ email_count = 0 /\ skipped_count = 0
    /\ tx_rows = <<>> /\ db_rows = <<>> /\ accepted = <<>>
    /\ warnings = <<>> /\ emitted = <<>>
    /\ err_cause = "none"

IdlePipe ==
    IdleFile /\ include_spam = FALSE /\ include_trash = FALSE /\ include_both = FALSE

IdleSkip == labels = EmptyStr /\ skip_out = FALSE

IdleDate == date_in = EmptyStr /\ date_out = None /\ date_again = None

IdleFix == raw_in = EmptyStr /\ fixed_out = EmptyStr

IdleExtract ==
    /\ mail_in = [headers |-> <<>>, body |-> [ok |-> FALSE, text |-> EmptyStr], subparts |-> <<>>]
    /\ record_out = EmailRecordDefault

(***************************************************************************)
(* process_mbox.                                                           *)
(***************************************************************************)
\* A byte that is not valid UTF-8; BufRead::lines yields Err for a line holding one
InvalidByte == "0x80"

IsValidUtf8(line) == \A i \in 1..Len(line) : line[i] # InvalidByte

\* A row whose date_parsed column falls back to the raw date string
RowOf_raw_date(record) ==
    [from_addr |-> record.from, to_addr |-> record.to, cc |-> record.cc,
     bcc |-> record.bcc, subject |-> record.subject, date |-> record.date,
     date_parsed |-> IF parse_email_date(record.date).some
                     THEN parse_email_date(record.date) ELSE Some(record.date),
     message_id |-> record.message_id, in_reply_to |-> record.in_reply_to,
     refs |-> record.references, content_type |-> record.content_type,
     body_plain |-> record.body_plain, body_html |-> record.body_html]

\* params![...] of the INSERT: the thirteen columns of one row
RowOf(record) ==
    [from_addr |-> record.from, to_addr |-> record.to, cc |-> record.cc,
     bcc |-> record.bcc, subject |-> record.subject, date |-> record.date,
     date_parsed |-> parse_email_date(record.date),
     message_id |-> record.message_id, in_reply_to |-> record.in_reply_to,
     refs |-> record.references, content_type |-> record.content_type,
     body_plain |-> record.body_plain, body_html |-> record.body_html]

\* A boundary test that does not ask for the space after "From"
IsBoundary_no_space(line, current) == StartsWith(line, <<"F","r","o","m">>) /\ current # EmptyStr

\* line.starts_with("From ") && !current_email.is_empty()
IsBoundary(line, current) == StartsWith(line, <<"F","r","o","m"," ">>) /\ current # EmptyStr

\* The loop's locals and the transaction: what a block is handled from
LoopState ==
    [email_count |-> email_count, skipped_count |-> skipped_count,
     tx_rows |-> tx_rows, accepted |-> accepted, warnings |-> warnings,
     emitted |-> emitted, failed |-> FALSE]

\* tx.execute(INSERT ...)? and email_count += 1
InsertRow(st, row, insert_ok) ==
    IF insert_ok
    THEN [st EXCEPT !.tx_rows = Append(st.tx_rows, row),
                    !.accepted = Append(st.accepted, row),
                    !.email_count = st.email_count + 1]
    ELSE [st EXCEPT !.failed = TRUE]

\* The match on extract_email_data(&current_email): what becomes of one block.
\* st holds the loop's locals and the transaction, ex is what extract_email_data
\* returned for the block, insert_ok is whether the INSERT succeeds.
HandleBlock(st, block, ex, insert_ok) ==
    IF ~ex.ok THEN
        [st EXCEPT !.emitted = Append(st.emitted, block),
                   !.warnings =
                       Append(st.warnings,
                              [ordinal |-> st.email_count + st.skipped_count + 1,
                               block |-> Len(st.emitted) + 1])]
    ELSE IF should_skip_email(ex.record.gmail_labels,
                              include_spam, include_trash, include_both) THEN
        [st EXCEPT !.emitted = Append(st.emitted, block),
                   !.skipped_count = st.skipped_count + 1]
    ELSE
        InsertRow([st EXCEPT !.emitted = Append(st.emitted, block)],
                  RowOf(ex.record), insert_ok)

\* The locals and the transaction after a block was handled; a failed INSERT
\* returns the error, and the transaction is dropped without a commit
AfterBlock(st) ==
    /\ email_count' = st.email_count
    /\ skipped_count' = st.skipped_count
    /\ accepted' = st.accepted
    /\ warnings' = st.warnings
    /\ emitted' = st.emitted
    /\ tx_rows' = IF st.failed THEN <<>> ELSE st.tx_rows
    /\ err_cause' = IF st.failed THEN "insert" ELSE err_cause

\* A boundary line: the block read so far is handled, and the line begins the
\* next block unless the INSERT failed
AtBoundary(st, line) ==
    /\ AfterBlock(st)
    /\ pc' = IF st.failed THEN "error" ELSE "scan"
    /\ current_email' = IF st.failed THEN current_email ELSE line \o <<"\n">>
    /\ pos' = IF st.failed THEN pos ELSE pos + 1

\* The block left at the end of the input is handled
AtLastBlock(st) ==
    /\ AfterBlock(st)
    /\ pc' = IF st.failed THEN "error" ELSE "commit"

\* The outcomes of handling the block read so far: the INSERT succeeds or fails
BlockOutcomes(ex) ==
    { HandleBlock(LoopState, current_email, ex, insert_ok) : insert_ok \in BOOLEAN }

\* File::open, create_database, conn.transaction
Setup ==
    /\ pc = "start"
    /\ \E setup_ok \in BOOLEAN :
          /\ pc' = IF setup_ok THEN "scan" ELSE "error"
          /\ err_cause' = IF setup_ok THEN err_cause ELSE "setup"
    /\ UNCHANGED <<input, msgs, pos, current_email, email_count, skipped_count,
                   tx_rows, db_rows, accepted, warnings, emitted,
                   include_spam, include_trash, include_both,
                   skipVars, dateVars, extractVars, fixVars>>

\* One iteration of `for line in reader.lines()`
ReadLine ==
    /\ pc = "scan"
    /\ pos <= Len(input)
    /\ IF ~IsValidUtf8(input[pos]) THEN
           /\ pc' = "error"
           /\ err_cause' = "read"
           /\ tx_rows' = <<>>
           /\ UNCHANGED <<pos, current_email, email_count, skipped_count,
                          accepted, warnings, emitted>>
       ELSE IF IsBoundary(input[pos], current_email) THEN
           \E st \in BlockOutcomes(extract_email_data(current_email)) :
               AtBoundary(st, input[pos])
       ELSE
           /\ current_email' = current_email \o input[pos] \o <<"\n">>
           /\ pos' = pos + 1
           /\ UNCHANGED <<pc, err_cause, tx_rows, email_count, skipped_count,
                          accepted, warnings, emitted>>
    /\ UNCHANGED <<input, msgs, db_rows, include_spam, include_trash, include_both,
                   skipVars, dateVars, extractVars, fixVars>>

\* After the loop: `if !current_email.is_empty()`
EndOfInput ==
    /\ pc = "scan"
    /\ pos > Len(input)
    /\ IF current_email # EmptyStr THEN
           \E st \in BlockOutcomes(extract_email_data(current_email)) :
               AtLastBlock(st)
       ELSE
           /\ pc' = "commit"
           /\ UNCHANGED <<err_cause, tx_rows, email_count, skipped_count,
                          accepted, warnings, emitted>>
    /\ UNCHANGED <<input, msgs, pos, current_email, db_rows,
                   include_spam, include_trash, include_both,
                   skipVars, dateVars, extractVars, fixVars>>

\* tx.commit()?
Commit ==
    /\ pc = "commit"
    /\ \E commit_ok \in BOOLEAN :
          /\ pc' = IF commit_ok THEN "done" ELSE "error"
          /\ err_cause' = IF commit_ok THEN err_cause ELSE "commit"
          /\ db_rows' = IF commit_ok THEN db_rows \o tx_rows ELSE db_rows
    /\ tx_rows' = <<>>
    /\ UNCHANGED <<input, msgs, pos, current_email, email_count, skipped_count,
                   accepted, warnings, emitted,
                   include_spam, include_trash, include_both,
                   skipVars, dateVars, extractVars, fixVars>>

\* The process is interrupted before tx.commit() has returned, during the setup,
\* between two iterations of the loop or after the last block: nothing handles
\* the signal, the transaction is never committed
Interrupt ==
    /\ pc \in {"start", "scan", "commit"}
    /\ pc' = "interrupted"
    /\ tx_rows' = <<>>
    /\ UNCHANGED <<input, msgs, pos, current_email, email_count, skipped_count,
                   db_rows, accepted, warnings, emitted, err_cause,
                   include_spam, include_trash, include_both,
                   skipVars, dateVars, extractVars, fixVars>>

(***************************************************************************)
(* The mbox files of the model: up to MaxMsgs messages, each one of the    *)
(* messages below, concatenated.                                           *)
(***************************************************************************)
GoodDate == <<"T","u","e",","," ","2"," ","M","a","r"," ","2","0","2","1"," ","0","9",":","0","5",":","0","3"," ","-","0","5","0","0">>

BadDate == <<"s","o","m","e","d","a","y">>

\* a well-formed message
MsgGood == << <<"F","r","o","m"," ","a"," ","1",":","0","2">>, <<"F","r","o","m",":"," ","a">>, <<"D","a","t","e",":"," ">> \o GoodDate, EmptyStr, <<"h","i">> >>

\* a message whose Date header cannot be normalised
MsgBadDate == << <<"F","r","o","m"," ","b"," ","1",":","0","2">>, <<"D","a","t","e",":"," ">> \o BadDate, <<"S","u","b","j","e","c","t",":"," ","s">> >>

\* a message labelled Spam, its label header indented by a stray space
MsgSpam == << <<"F","r","o","m"," ","c"," ","1",":","0","2">>, <<" ","X","-","G","m","a","i","l","-","L","a","b","e","l","s",":"," ","I","n","b","o","x",",","S","p","a","m">>, <<"D","a","t","e",":"," ">> \o GoodDate >>

\* a message the MIME parser rejects
MsgUnparseable == << <<"F","r","o","m"," ","d"," ","1",":","0","2">>, <<"n","o","c","o","l","o","n">>, <<" ">> >>

\* a message whose body quotes an envelope line
MsgQuoting == << <<"F","r","o","m"," ","e"," ","1",":","0","2">>, EmptyStr, <<"F","r","o","m"," ","a"," ","1",":","0","2">> >>

\* a message with a byte that is not UTF-8 in its body
MsgLatin1 == << <<"F","r","o","m"," ","f"," ","1",":","0","2">>, EmptyStr, <<"c", "a", "f", InvalidByte>> >>

RECURSIVE Concat(_)
Concat(ms) == IF ms = <<>> THEN <<>> ELSE Head(ms) \o Concat(Tail(ms))

\* The flags of the command line: the default, and --include-spam
FlagChoices ==
    { <<FALSE, FALSE, FALSE>>, <<TRUE, FALSE, FALSE>> }

Init ==
    /\ pc = "start"
    /\ msgs \in SeqsOf({MsgGood, MsgBadDate, MsgSpam, MsgUnparseable, MsgQuoting, MsgLatin1},
                       1, MaxMsgs)
    /\ input = Concat(msgs)
    /\ pos = 1
    /\ current_email = EmptyStr
    /\ email_count = 0 /\ skipped_count = 0
    /\ tx_rows = <<>> /\ db_rows = <<>> /\ accepted = <<>>
    /\ warnings = <<>> /\ emitted = <<>>
    /\ err_cause = "none"
    /\ \E f \in FlagChoices :
          include_spam = f[1] /\ include_trash = f[2] /\ include_both = f[3]
    /\ IdleSkip /\ IdleDate /\ IdleExtract /\ IdleFix

Next == Setup \/ ReadLine \/ EndOfInput \/ Commit \/ Interrupt

Spec == Init /\ [][Next]_vars

(***************************************************************************)
(* Properties of the scan loop and the transaction.                        *)
(***************************************************************************)
\* Every message begins with an envelope line and holds no other line that
\* starts with "From "
WellFormed(ms) ==
    \A k \in 1..Len(ms) :
        /\ StartsWith(ms[k][1], <<"F","r","o","m"," ">>)
        /\ \A i \in 2..Len(ms[k]) : ~StartsWith(ms[k][i], <<"F","r","o","m"," ">>)

\* The lines of a message, each followed by one newline
RECURSIVE BlockOf(_)
BlockOf(m) == IF m = <<>> THEN EmptyStr ELSE Head(m) \o <<"\n">> \o BlockOf(Tail(m))

\* The scan loop ran to the end of the input
ScanCompleted == pc \in {"commit", "done"} \/ (pc = "error" /\ err_cause = "commit")

\* C1: for an input of N messages whose first lines, and no other lines, start
\* with "From ", the blocks handed to extract_email_data are at every moment
\* the first blocks of the input, in order, the k-th block being exactly the
\* lines of the k-th message each followed by one newline; and once the scan
\* has reached the end of the input exactly N blocks were handed over.
C1_BlocksAreMessages ==
    WellFormed(msgs) =>
        /\ Len(emitted) <= Len(msgs)
        /\ \A k \in 1..Len(emitted) : emitted[k] = BlockOf(msgs[k])
        /\ ScanCompleted => Len(emitted) = Len(msgs)

C1_Witness ==
    /\ pc = "done"
    /\ msgs = <<MsgGood, MsgSpam, MsgBadDate>>
    /\ emitted = <<BlockOf(MsgGood), BlockOf(MsgSpam), BlockOf(MsgBadDate)>>

\* C2: process_mbox returns an error only when the setup fails (or the final
\* commit does); no failure while reading or storing one message ends the run.
C2_OnlySetupAborts ==
    pc = "error" => err_cause \in {"setup", "commit"}

\* The mbox of three messages: one with a malformed date, one labelled spam,
\* one well-formed, in any order
IsThreeMessageMbox ==
    /\ Len(msgs) = 3
    /\ {msgs[1], msgs[2], msgs[3]} = {MsgBadDate, MsgSpam, MsgGood}

\* The rows of the messages of ms that the run keeps, in input order
RECURSIVE KeptRows(_)
KeptRows(ms) ==
    IF ms = <<>> THEN <<>>
    ELSE LET dated == [date |-> IF Head(ms) = MsgBadDate THEN BadDate ELSE GoodDate,
                       date_parsed |-> IF Head(ms) = MsgBadDate THEN None
                                       ELSE Some(<<"2","0","2","1","-","0","3","-","0","2"," ","0","9",":","0","5",":","0","3">>)]
         IN  IF Head(ms) = MsgSpam /\ ~include_spam THEN KeptRows(Tail(ms))
             ELSE <<dated>> \o KeptRows(Tail(ms))

\* C4: for the mbox of one message with a malformed date, one spam-labelled
\* message and one well-formed message, in any order, a completed run with all
\* flags false stores exactly 2 records (the malformed-date one and the
\* well-formed one), and with include_spam set exactly 3; the malformed-date
\* record has date_parsed absent and its raw date stored verbatim, the others
\* have the normalised date.
C4_StoredRecords ==
    (IsThreeMessageMbox /\ pc = "done") =>
        /\ Len(db_rows) = (IF include_spam THEN 3 ELSE 2)
        /\ [k \in 1..Len(db_rows) |->
               [date |-> db_rows[k].date, date_parsed |-> db_rows[k].date_parsed]]
             = KeptRows(msgs)

C4_Witness ==
    /\ pc = "done"
    /\ msgs = <<MsgBadDate, MsgSpam, MsgGood>>
    /\ ~include_spam /\ ~include_trash /\ ~include_both
    /\ Len(db_rows) = 2
    /\ db_rows[1].date = BadDate /\ db_rows[1].date_parsed = None
    /\ db_rows[2].date_parsed = Some(<<"2","0","2","1","-","0","3","-","0","2"," ","0","9",":","0","5",":","0","3">>)

\* C4 as stated: the same run stores exactly 1 record with all flags false and
\* exactly 2 with include_spam set.
C4_AsStated ==
    (IsThreeMessageMbox /\ pc = "done") =>
        Len(db_rows) = (IF include_spam THEN 2 ELSE 1)

\* C5: when the run is interrupted between two blocks (a block was handed
\* over, lines of the input are still to be read), every record accepted so
\* far is committed in the database.
C5_CommittedAtInterrupt ==
    (pc = "interrupted" /\ emitted # <<>> /\ pos <= Len(input)) => db_rows = accepted

\* C10: the warning for a block whose extraction failed names the position of
\* that block among the blocks emitted by the scanner, so no two warnings of a
\* run name the same ordinal.
C10_WarningOrdinals ==
    /\ \A i \in 1..Len(warnings) : warnings[i].ordinal = warnings[i].block
    /\ \A i, j \in 1..Len(warnings) :
          warnings[i].ordinal = warnings[j].ordinal => i = j

(***************************************************************************)
(* The filter on its own: every label string of up to MaxLabels Gmail      *)
(* labels, every combination of the three flags.                           *)
(***************************************************************************)
LabelWords ==
    { <<"I","n","b","o","x">>, <<"S","p","a","m">>, <<"S","P","A","M">>, <<"T","r","a","s","h">>, <<"t","R","a","S","h">>, <<"A","n","t","i","s","p","a","m">>, <<"S","p","a">>, <<"r","a","s","h">> }

LabelInputs == { Join(ws, <<",">>) : ws \in SeqsOf(LabelWords, 0, MaxLabels) }

InitSkip ==
    /\ pc = "skip_call"
    /\ IdleFile /\ IdleDate /\ IdleExtract /\ IdleFix
    /\ labels \in LabelInputs
    /\ include_spam \in BOOLEAN /\ include_trash \in BOOLEAN /\ include_both \in BOOLEAN
    /\ skip_out = FALSE

CallSkip ==
    /\ pc = "skip_call"
    /\ skip_out' = should_skip_email(labels, include_spam, include_trash, include_both)
    /\ pc' = "skip_done"
    /\ UNCHANGED <<pipeVars, labels, include_spam, include_trash, include_both,
                   dateVars, extractVars, fixVars>>

NextSkip == CallSkip

SpecSkip == InitSkip /\ [][NextSkip]_vars

\* "contains w whatever the case of its letters", stated without to_lowercase
ContainsAnyCase(s, w) ==
    \E i \in 1..(Len(s) - Len(w) + 1) :
        \A j \in 1..Len(w) : s[i + j - 1] \in {w[j], UpperChar(w[j])}

\* C3: should_skip_email is false when include_both is set; otherwise it is true
\* exactly when (labels contain "spam" in any case and include_spam is false) or
\* (labels contain "trash" in any case and include_trash is false); labels with
\* neither substring are never skipped.
C3_SkipExactly ==
    pc = "skip_done" =>
        /\ include_both => skip_out = FALSE
        /\ ~include_both =>
              skip_out = (\/ ContainsAnyCase(labels, <<"s","p","a","m">>) /\ ~include_spam
                          \/ ContainsAnyCase(labels, <<"t","r","a","s","h">>) /\ ~include_trash)
        /\ (~ContainsAnyCase(labels, <<"s","p","a","m">>) /\ ~ContainsAnyCase(labels, <<"t","r","a","s","h">>))
              => skip_out = FALSE

\* A mixed-case trash label is skipped although include_spam is set.
C3_Witness ==
    /\ pc = "skip_done" /\ skip_out = TRUE
    /\ labels = <<"I","n","b","o","x",",","t","R","a","S","h">>
    /\ include_spam /\ ~include_trash /\ ~include_both

(***************************************************************************)
(* The date engine on its own: the dates of the model, normalised, and the *)
(* result normalised once more.                                            *)
(***************************************************************************)
\* "Tue 02 Mar 2021 h:m:s EST", with and without the comma after the weekday,
\* each of hour, minute and second written with one or with two digits
ClockWeekdays == {<<"T","u","e">>, <<"T","u","e",",">>}

ClockHours == {<<"9">>, <<"0","9">>, <<"2","1">>}

ClockMinutes == {<<"5">>, <<"0","5">>, <<"4","7">>}

ClockSeconds == {<<"3">>, <<"0","3">>, <<"1","1">>}

ClockDate(wd, h, m, sec) ==
    wd \o <<" ","0","2"," ","M","a","r"," ","2","0","2","1"," ">> \o h \o <<":">> \o m \o <<":">> \o sec \o <<" ","E","S","T">>

ClockDates ==
    { ClockDate(wd, h, m, sec) :
        wd \in ClockWeekdays, h \in ClockHours, m \in ClockMinutes, sec \in ClockSeconds }

OtherDates ==
    { EmptyStr, <<" "," "," ">>, BadDate, GoodDate,
      <<"T","h","u",","," ","1","1"," ","J","u","n"," ","0","9"," ","1","4",":","0","3",":","0","1"," ","-","0","4","0","0">>,
      <<"T","h","u",","," ","1","1"," ","J","u","n"," ","6","8"," ","1","4",":","0","3",":","0","1"," ","-","0","4","0","0">>,
      <<"T","u","e",","," ","1","1"," ","J","u","n"," ","6","8"," ","1","4",":","0","3",":","0","1"," ","-","0","4","0","0">>,
      <<"T","h","u"," ","J","u","l"," ","2","0"," ","1","1",":","3","9",":","5","1"," ","2","0","0","6">>,
      <<"7","/","1","9","/","2","0","0","5"," ","8",":","1","1",":","5","2"," ","A","M">>,
      <<"7","/","1","9","/","2","0","0","5"," ","2","0",":","1","1",":","5","2">>,
      <<"7","/","1","9","/","2","0","0","5">>,
      <<"T","u","e",","," ","2"," ","M","a","r"," ","2","0","2","1"," ","0","9",":","0","5",":","0","3"," ","-","-","0","5","0","0">>,
      <<"T","u","e",","," ","2"," ","M","a","r"," ","2","0","2","1"," ","0","9",":","0","5",":","0","3"," ","+","0","0","0","0",".","3","9","5","-","5","0","8","2","2","2">>,
      <<"T","u","e",","," ","2"," ","M","a","r"," ","2","0","2","1"," ","0","9",":","0","5",":","0","3"," ","-","0","5","0","0"," ","(","E","a","s","t","e","r","n"," ","S","t","a","n","d","a","r","d"," ","T","i","m","e",")">>,
      <<"T","u","e",","," ","2"," ","M","a","r"," ","2","0","2","1"," ","0","9",":","0","5",":","0","3"," ","G","M","T","-","0","7",":","0","0">>,
      <<"T","u","e",","," ","2"," ","M","a","r"," ","2","0","2","1"," ","0","9",":","0","5",":","0","3"," ","-","6","0","0">>,
      <<"T","u","e","s","d","a","y",","," ","2"," ","M","a","r","c","h"," ","2","0","2","1"," ","9",":","0","5",":","0","3"," ","P","M"," ","C","S","T">>,
      <<"M","o","n",","," ","2","9"," ","F","e","b"," ","2","0","2","1"," ","0","9",":","0","5",":","0","3"," ","+","0","0","0","0">>,
      <<"2","0","2","1","-","0","3","-","0","2"," ","0","9",":","0","5",":","0","3">>,
      <<"1","9","9","9","-","1","2","-","3","1"," ","2","3",":","5","9",":","5","9">>,
      <<"2"," ","M","a","r"," ","1","2","0","2","1"," ","0","9",":","0","5",":","0","3"," ","+","0","0","0","0">>,
      <<"3","1"," ","D","e","c"," ","2","6","2","1","4","2"," ","2","3",":","5","9",":","5","9"," ","+","0","0","0","0">>,
      <<"3","1"," ","D","e","c"," ","2","6","2","1","4","2"," ","2","3",":","5","9",":","5","9"," ","-","0","0","0","1">>,
      <<"2"," ","M","a","r"," ","0","0","0","0"," ","0","9",":","0","5",":","0","3"," ","+","0","0","0","0">>,
      <<"T","h","u"," ","J","u","l"," ","2","0"," ","1","1",":","3","9",":","5","1"," ","+","2","0","0","6">>,
      <<"W","e","d"," ","J","u","l"," ","2","0"," ","1","1",":","3","9",":","5","1"," ","-","2","0","0","6">>,
      <<"7","/","1","9","/","2","0","0","5"," ","8",":"," ","1","1",":","5","2"," ","A","M">>,
      <<"7","/"," ","1","9","/"," ","2","0","0","5"," ","8",":","1","1",":"," ","5","2">>,
      <<"T","u","e",",","\f","2"," ","M","a","r"," ","2","0","2","1"," ","0","9",":","0","5",":","0","3"," ","-","0","5","0","0">>,
      <<"T","u","e",",","\r","\n"," ","2"," ","M","a","r"," ","2","0","2","1"," ","0","9",":","0","5",":","0","3"," ","-","0","5","0","0","\r">> }

InitDate ==
    /\ pc = "date_call"
    /\ IdlePipe /\ IdleSkip /\ IdleExtract /\ IdleFix
    /\ date_in \in ClockDates \cup OtherDates
    /\ date_out = None /\ date_again = None

NormalizeDate ==
    /\ pc = "date_call"
    /\ date_out' = parse_email_date(date_in)
    /\ pc' = "date_done"
    /\ UNCHANGED <<pipeVars, include_spam, include_trash, include_both, skipVars,
                   extractVars, fixVars, date_in, date_again>>

\* parse_email_date on a string it returned
NormalizeAgain ==
    /\ pc = "date_done"
    /\ date_out.some
    /\ date_again' = parse_email_date(date_out.text)
    /\ pc' = "date_redone"
    /\ UNCHANGED <<pipeVars, include_spam, include_trash, include_both, skipVars,
                   extractVars, fixVars, date_in, date_out>>

NextDate == NormalizeDate \/ NormalizeAgain

SpecDate == InitDate /\ [][NextDate]_vars

(***************************************************************************)
(* Properties of parse_email_date.                                         *)
(***************************************************************************)
\* C8: parse_email_date applied to a string it returned returns that string
\* again.
C8_Idempotent ==
    pc = "date_redone" => date_again = date_out

\* A field of a time token written with two digits
Pad2(t) == IF Len(t) = 1 THEN <<"0">> \o t ELSE t

\* C9: for every time token h:m:s whose fields are written with one or two
\* digits, the repaired string carries the token as HH:MM:SS with every field
\* two digits wide, and the date is normalised to that wall-clock time; so
\* "Tue 02 Mar 2021 9:5:3 EST" gives "2021-03-02 09:05:03".
C9_TimeZeroPadded ==
    pc = "date_done" =>
        \A wd \in ClockWeekdays, h \in ClockHours, m \in ClockMinutes, sec \in ClockSeconds :
            date_in = ClockDate(wd, h, m, sec) =>
                LET clock == Pad2(h) \o <<":">> \o Pad2(m) \o <<":">> \o Pad2(sec) IN
                /\ Contains(RepairDate(Trim(date_in)), <<" ">> \o clock \o <<" ">>)
                /\ date_out = Some(<<"2","0","2","1","-","0","3","-","0","2"," ">> \o clock)

(***************************************************************************)
(* extract_email_data after the MIME parser: the header loop and           *)
(* extract_body on the ParsedMail values of the model, which are header    *)
(* lists of up to MaxHeaders headers, and body-part trees of up to         *)
(* MaxLeaves leaves, nested up to two levels deep.                         *)
(***************************************************************************)
HeaderKeys ==
    { <<"F","r","o","m">>, <<"F","R","O","M">>, <<"T","o">>, <<"C","c">>, <<"B","c","c">>, <<"S","u","b","j","e","c","t">>, <<"D","a","t","e">>, <<"M","e","s","s","a","g","e","-","I","D">>,
      <<"I","n","-","R","e","p","l","y","-","T","o">>, <<"R","e","f","e","r","e","n","c","e","s">>, <<"C","o","n","t","e","n","t","-","T","y","p","e">>, <<"X","-","G","m","a","i","l","-","L","a","b","e","l","s">>, <<"X","-","O","t","h","e","r">> }

\* Header lists: every sequence of up to MaxHeaders keys; the value of the k-th
\* header names its place in the list
HeaderLists ==
    { [k \in 1..Len(keys) |-> [key |-> keys[k], value |-> <<"v", Digits[k + 1]>>]] :
        keys \in SeqsOf(HeaderKeys, 0, MaxHeaders) }

LeafMail(headers, body) == [headers |-> headers, body |-> body, subparts |-> <<>>]

MultipartMail(parts) ==
    [headers |-> << [key |-> <<"C","o","n","t","e","n","t","-","T","y","p","e">>, value |-> <<"m","u","l","t","i","p","a","r","t","/","m","i","x","e","d">>] >>,
     body |-> [ok |-> TRUE, text |-> EmptyStr],
     subparts |-> parts]

HeaderMails ==
    { LeafMail(hs, [ok |-> TRUE, text |-> <<"b">>]) : hs \in HeaderLists }

HtmlType == << [key |-> <<"C","o","n","t","e","n","t","-","T","y","p","e">>, value |-> <<"T","e","x","t","/","H","T","M","L",";"," ","c","h","a","r","s","e","t","=","x">>] >>

PlainType == << [key |-> <<"c","o","n","t","e","n","t","-","t","y","p","e">>, value |-> <<"t","e","x","t","/","p","l","a","i","n">>] >>

\* a part with two Content-Type headers, the first one HTML
TwoTypes ==
    << [key |-> <<"C","O","N","T","E","N","T","-","T","Y","P","E">>, value |-> <<"t","e","x","t","/","h","t","m","l">>],
       [key |-> <<"C","o","n","t","e","n","t","-","T","y","p","e">>, value |-> <<"t","e","x","t","/","p","l","a","i","n">>] >>

\* The parts a tree is made of: the headers of a leaf, and whether get_body()
\* decodes its body
LeafKinds ==
    { [headers |-> <<>>, ok |-> TRUE],
      [headers |-> HtmlType, ok |-> TRUE], [headers |-> HtmlType, ok |-> FALSE],
      [headers |-> PlainType, ok |-> TRUE], [headers |-> PlainType, ok |-> FALSE],
      [headers |-> TwoTypes, ok |-> TRUE] }

\* The k-th leaf of a tree, in the order of the message: its text names its place
LeafAt(kind, k) ==
    LeafMail(kind.headers,
             IF kind.ok THEN [ok |-> TRUE, text |-> <<"t", Digits[k + 1]>>]
             ELSE [ok |-> FALSE, text |-> EmptyStr])

\* The ways to group n leaves under a multipart root: a sequence of groups, each
\* <<size, nested>>; a group that is not nested is one leaf, a nested group is
\* a multipart child holding size leaves
RECURSIVE SumSizes(_)
SumSizes(g) == IF g = <<>> THEN 0 ELSE g[1][1] + SumSizes(Tail(g))

Groupings(n) ==
    { g \in SeqsOf({<<1, FALSE>>} \cup {<<k, TRUE>> : k \in 1..n}, 1, n) : SumSizes(g) = n }

\* The children of the root for grouping g of the leaves from the k-th on
RECURSIVE Children(_, _, _)
Children(kinds, g, k) ==
    IF g = <<>> THEN <<>>
    ELSE LET size == g[1][1]
             child == IF g[1][2]
                      THEN MultipartMail([j \in 1..size |-> LeafAt(kinds[k + j - 1], k + j - 1)])
                      ELSE LeafAt(kinds[k], k)
         IN  <<child>> \o Children(kinds, Tail(g), k + size)

\* mail is one of the body-part trees: a single leaf, or a multipart root over
\* up to MaxLeaves leaves in one of their groupings
IsBodyMail(mail) ==
    \/ \E kind \in LeafKinds : mail = LeafAt(kind, 1)
    \/ \E n \in 1..MaxLeaves : \E kinds \in [1..n -> LeafKinds] : \E g \in Groupings(n) :
           mail = MultipartMail(Children(kinds, g, 1))

InitExtract ==
    /\ pc = "extract_call"
    /\ IdlePipe /\ IdleSkip /\ IdleDate /\ IdleFix
    /\ \/ mail_in \in HeaderMails
       \/ IsBodyMail(mail_in)
    /\ record_out = EmailRecordDefault

\* extract_email_data from `let mut record = EmailRecord::default()` on
ExtractRecord ==
    /\ pc = "extract_call"
    /\ record_out' = RecordOfParsed(mail_in)
    /\ pc' = "extract_done"
    /\ UNCHANGED <<pipeVars, include_spam, include_trash, include_both, skipVars,
                   dateVars, fixVars, mail_in>>

NextExtract == ExtractRecord

SpecExtract == InitExtract /\ [][NextExtract]_vars

(***************************************************************************)
(* Properties of the header loop and of extract_body.                      *)
(***************************************************************************)
\* The header names the record collects, lowered
CollectedNames ==
    { <<"f","r","o","m">>, <<"t","o">>, <<"c","c">>, <<"b","c","c">>, <<"s","u","b","j","e","c","t">>, <<"d","a","t","e">>, <<"m","e","s","s","a","g","e","-","i","d">>,
      <<"i","n","-","r","e","p","l","y","-","t","o">>, <<"r","e","f","e","r","e","n","c","e","s">>, <<"c","o","n","t","e","n","t","-","t","y","p","e">>, <<"x","-","g","m","a","i","l","-","l","a","b","e","l","s">> }

\* The field of the record that holds the header called name
FieldOf(record, name) ==
    CASE name = <<"f","r","o","m">> -> record.from
      [] name = <<"t","o">> -> record.to
      [] name = <<"c","c">> -> record.cc
      [] name = <<"b","c","c">> -> record.bcc
      [] name = <<"s","u","b","j","e","c","t">> -> record.subject
      [] name = <<"d","a","t","e">> -> record.date
      [] name = <<"m","e","s","s","a","g","e","-","i","d">> -> record.message_id
      [] name = <<"i","n","-","r","e","p","l","y","-","t","o">> -> record.in_reply_to
      [] name = <<"r","e","f","e","r","e","n","c","e","s">> -> record.references
      [] name = <<"c","o","n","t","e","n","t","-","t","y","p","e">> -> record.content_type
      [] name = <<"x","-","g","m","a","i","l","-","l","a","b","e","l","s">> -> record.gmail_labels

\* The places of the headers called name, whatever their case
PlacesOf(headers, name) == { i \in 1..Len(headers) : ToLower(headers[i].key) = name }

Least(S) == CHOOSE i \in S : \A j \in S : i <= j

Greatest(S) == CHOOSE i \in S : \A j \in S : j <= i

\* C6: for every header list and every collected header name, the field of the
\* record holds the value of the first header of that name in list order (and
\* stays empty when there is none).
C6_FirstOccurrenceWins ==
    pc = "extract_done" =>
        \A name \in CollectedNames :
            FieldOf(record_out, name) =
                IF PlacesOf(mail_in.headers, name) = {} THEN EmptyStr
                ELSE mail_in.headers[Least(PlacesOf(mail_in.headers, name))].value

\* The leaves of a body-part tree, depth-first in child order
RECURSIVE LeavesOf(_)
RECURSIVE LeavesOfParts(_)
LeavesOf(mail) ==
    IF mail.subparts = <<>> THEN <<mail>> ELSE LeavesOfParts(mail.subparts)

LeavesOfParts(parts) ==
    IF parts = <<>> THEN <<>> ELSE LeavesOf(Head(parts)) \o LeavesOfParts(Tail(parts))

\* The content type of a leaf is HTML
IsHtmlLeaf(leaf) ==
    \E i \in PlacesOf(leaf.headers, <<"c","o","n","t","e","n","t","-","t","y","p","e">>) :
        /\ i = Least(PlacesOf(leaf.headers, <<"c","o","n","t","e","n","t","-","t","y","p","e">>))
        /\ Contains(ToLower(leaf.headers[i].value), <<"t","e","x","t","/","h","t","m","l">>)

\* The text of the last of the leaves in S, empty when S is empty
LastText(leaves, S) == IF S = {} THEN EmptyStr ELSE leaves[Greatest(S)].body.text

\* C7: for every body-part tree, body_html is the decoded text of the last
\* leaf, depth-first in child order, whose content type is HTML and whose body
\* decodes, and body_plain that of the last non-HTML leaf whose body decodes
\* (each empty when there is no such leaf); a leaf whose body does not decode
\* changes neither field.
C7_LastDecodedLeafWins ==
    pc = "extract_done" =>
        LET leaves == LeavesOf(mail_in)
            html == { i \in 1..Len(leaves) : IsHtmlLeaf(leaves[i]) /\ leaves[i].body.ok }
            plain == { i \in 1..Len(leaves) : ~IsHtmlLeaf(leaves[i]) /\ leaves[i].body.ok }
        IN  /\ record_out.body_html = LastText(leaves, html)
            /\ record_out.body_plain = LastText(leaves, plain)

C7_Witness ==
    /\ pc = "extract_done"
    /\ mail_in = MultipartMail(<< LeafAt([headers |-> HtmlType, ok |-> TRUE], 1),
                                  LeafAt([headers |-> PlainType, ok |-> TRUE], 2),
                                  LeafAt([headers |-> HtmlType, ok |-> FALSE], 3) >>)
    /\ record_out.body_html = <<"t","1">>
    /\ record_out.body_plain = <<"t","2">>

\* C7 as stated: body_html is the decoded text of the last leaf whose content
\* type is HTML and body_plain that of the last non-HTML leaf, whether or not
\* the body of that leaf decodes.
C7_AsStated ==
    pc = "extract_done" =>
        LET leaves == LeavesOf(mail_in)
            html == { i \in 1..Len(leaves) : IsHtmlLeaf(leaves[i]) }
            plain == { i \in 1..Len(leaves) : ~IsHtmlLeaf(leaves[i]) }
        IN  /\ record_out.body_html = LastText(leaves, html)
            /\ record_out.body_plain = LastText(leaves, plain)

(***************************************************************************)
(* The preprocessing step of extract_email_data on blocks of up to         *)
(* MaxLines lines, each line followed by a newline as process_mbox builds  *)
(* them.                                                                   *)
(***************************************************************************)
\* Lines that start with spaces, with tabs, with both or with neither, blank
\* lines, and lines that end in a carriage return
BlockLines ==
    { <<"a",":"," ","b">>, <<" ","a",":"," ","b">>, <<" "," "," ","a",":"," ","b">>, <<"\t">> \o <<"a",":"," ","b">>, <<" ", "\t">> \o <<"a",":"," ","b">>,
      <<"\t", " ">> \o <<"a",":"," ","b">>, <<"a",":"," ","b"," ">>, EmptyStr, <<" ">>, <<" "," ">>, <<"\t">>, <<" ", "\t">>,
      <<" ","a",":"," ","b","\r">>, <<" ","\r">> }

InitFix ==
    /\ pc = "fix_call"
    /\ IdlePipe /\ IdleSkip /\ IdleDate /\ IdleExtract
    /\ \E ls \in SeqsOf(BlockLines, 1, MaxLines) : raw_in = Join(ls, <<"\n">>) \o <<"\n">>
    /\ fixed_out = EmptyStr

\* extract_email_data up to `let parsed = parse_mail(..)`
Preprocess ==
    /\ pc = "fix_call"
    /\ fixed_out' = fixed_email(raw_in)
    /\ pc' = "fix_done"
    /\ UNCHANGED <<pipeVars, include_spam, include_trash, include_both, skipVars,
                   dateVars, extractVars, raw_in>>

NextFix == Preprocess

SpecFix == InitFix /\ [][NextFix]_vars

\* A line of nothing but whitespace
IsBlank(line) == \A i \in 1..Len(line) : line[i] \in {" ", "\t"}

\* The line without the spaces and tabs it begins with
RECURSIVE WithoutLeadingWhitespace(_)
WithoutLeadingWhitespace(line) ==
    IF line # EmptyStr /\ Head(line) \in {" ", "\t"}
    THEN WithoutLeadingWhitespace(Tail(line))
    ELSE line

\* The line as the preprocessing step is said to pass it on
ExpectedLine(line) ==
    IF line # EmptyStr /\ Head(line) \in {" ", "\t"} /\ ~IsBlank(line)
    THEN WithoutLeadingWhitespace(line)
    ELSE line

\* C11: every line of the block that begins with a space or a tab and is not
\* blank reaches the MIME parser with all of its leading whitespace removed,
\* and every other line reaches it unchanged.
C11_LeadingWhitespaceStripped ==
    pc = "fix_done" =>
        SplitNewline(fixed_out) =
            [k \in 1..Len(Lines(raw_in)) |-> ExpectedLine(Lines(raw_in)[k])]

=============================================================================
